---- MODULE Spec2Model ----
(***************************************************************************)
(* Registered-domain lookup of C/dkim-regdom.c: the parser of the encoded  *)
(* suffix rules (readTldString, loadTldTree) and the matcher               *)
(* (getRegisteredDomainDropI, findRegisteredDomain, findTldNode,           *)
(* concatDomLabel, freeDomLabels).                                         *)
(*                                                                         *)
(* C strings are sequences of one-character strings.  A position of the C  *)
(* code is 0-based; s[pos] of the code is CharAt(s, pos) here.             *)
(***************************************************************************)
EXTENDS Integers, Sequences, FiniteSets, TLC

(***************************************************************************)
(* Bounds of the model.                                                    *)
(***************************************************************************)
\* nodes below the root in the rule trees the parser is run on
MaxParseNodes == 3
\* nodes below the root in the rule trees the lookups run against
MaxRuleNodes == 2
\* characters in a generated hostname
MaxHostLen == 5
\* characters in a generated hostname of the concurrent lookups
MaxConcHostLen == 2

(***************************************************************************)
(* Characters and C strings.                                               *)
(***************************************************************************)
\* the terminating '\0' of a C string
NUL == "NUL"
\* static const char ALL[] = "*";
ALL == <<"*">>
\* static const char THIS[] = "!";  node->attr is compared with it by address
THIS == "THIS"
\* node->attr after memset(node, 0, ...)
NoAttr == "0"
\* node->dom after memset(node, 0, ...): a null char pointer
NullDom == <<"NULLPTR">>

\* s[pos] for a C string of length Len(s); s[len] is the terminator
CharAt(s, pos) == IF pos >= 0 /\ pos < Len(s) THEN s[pos + 1] ELSE NUL

\* memcpy(dst, s + from, n); dst[n] = 0
CopyChars(s, from, n) == [i \in 1..n |-> CharAt(s, from + i - 1)]

DigitVal(c) ==
    CASE c = "0" -> 0 [] c = "1" -> 1 [] c = "2" -> 2 [] c = "3" -> 3
      [] c = "4" -> 4 [] c = "5" -> 5 [] c = "6" -> 6 [] c = "7" -> 7
      [] c = "8" -> 8 [] c = "9" -> 9 [] OTHER -> -1

RECURSIVE atoiFrom(_, _, _)
atoiFrom(buf, i, acc) ==
    IF i > Len(buf) \/ DigitVal(buf[i]) < 0 THEN acc
    ELSE atoiFrom(buf, i + 1, acc * 10 + DigitVal(buf[i]))

\* atoi on the digits between '(' and ':'
atoi(buf) == atoiFrom(buf, 1, 0)

(***************************************************************************)
(* struct tldnode and the parser.                                          *)
(***************************************************************************)
\* memset(node, 0, sizeof(tldnode))
ZeroNode == [dom |-> NullDom, attr |-> NoAttr, num_children |-> 0, subnodes |-> <<>>]

\* bytes of the label copied into node->dom (line 74)
LabelLen(attr, pos, start) == IF attr = THIS THEN pos - start - 1 ELSE pos - start

\* the position the parse of the next child starts at (line 109: pos + 1)
ChildStartSame(pos) == pos
ChildStart(pos) == pos + 1

\* the value returned after the children are read (line 112)
AfterChildren(pos) == pos + 1

RECURSIVE readLoop(_, _, _, _, _, _), readChildren(_, _, _, _, _, _)

\* the do-while loop of readTldString, entered at pos with the given state
readLoop(node, s, len, pos, start, state) ==
    LET c == CharAt(s, pos)
        again(n, st, sta) ==
            \* pos++; while (pos < len)
            IF pos + 1 < len THEN readLoop(n, s, len, pos + 1, st, sta)
            ELSE [node |-> n, pos |-> pos + 1, calls |-> <<>>]
    IN  IF state = 0
        THEN IF c \in {",", ")", "("}
             THEN LET lenc == LabelLen(node.attr, pos, start)
                      n1 == [node EXCEPT !.dom = CopyChars(s, start, lenc)]
                  IN  IF c = "(" THEN again(n1, pos, 1)
                      ELSE [node |-> n1, pos |-> pos, calls |-> <<>>]
             ELSE IF c = "!" THEN again([node EXCEPT !.attr = THIS], start, 0)
                  ELSE again(node, start, 0)
        ELSE IF c = ":"
             THEN LET num == atoi(CopyChars(s, start + 1, pos - start - 1))
                      r == readChildren(s, len, pos, 0, num, [subnodes |-> <<>>, calls |-> <<>>])
                  IN  [node |-> [node EXCEPT !.num_children = num,
                                              !.subnodes = r.subnodes],
                       pos |-> AfterChildren(r.pos), calls |-> r.calls]
             ELSE again(node, start, 1)

\* for (i = 0; i < num_children; i++) pos = readTldString(subnodes[i], s, len, pos + 1)
readChildren(s, len, pos, i, num, acc) ==
    IF i >= num THEN [subnodes |-> acc.subnodes, calls |-> acc.calls, pos |-> pos]
    ELSE LET r == readLoop(ZeroNode, s, len, ChildStart(pos), ChildStart(pos), 0)
         IN  readChildren(s, len, r.pos, i + 1, num,
                 [subnodes |-> Append(acc.subnodes, r.node),
                  calls |-> acc.calls \o <<ChildStart(pos)>> \o r.calls])

\* readTldString(node, s, len, pos): the node read, the position returned, and
\* the start positions of the calls made for its descendants, in call order
readTldString(s, len, pos) == readLoop(ZeroNode, s, len, pos, pos, 0)

\* loadTldTree with tldString = s
loadTldTree(s) == readTldString(s, Len(s), 0).node

(***************************************************************************)
(* The encoded rule strings the parser is given.  tld-canon.h is generated *)
(* from a rule tree; a rule is the text of a label as it is written in the *)
(* string and the rules nested under it.                                   *)
(***************************************************************************)
Digit(n) == <<"0", "1", "2", "3", "4", "5", "6", "7", "8", "9">>[n + 1]

RECURSIVE Dec(_)
Dec(n) == IF n < 10 THEN <<Digit(n)>> ELSE Dec(n \div 10) \o <<Digit(n % 10)>>

RECURSIVE Encode(_), EncodeList(_)
\* text [ '(' count ':' rule { ',' rule } ')' ]
Encode(r) ==
    IF r.kids = <<>> THEN r.text
    ELSE r.text \o <<"(">> \o Dec(Len(r.kids)) \o <<":">> \o EncodeList(r.kids) \o <<")">>

EncodeList(kids) ==
    IF Len(kids) = 1 THEN Encode(kids[1])
    ELSE Encode(kids[1]) \o <<",">> \o EncodeList(Tail(kids))

RECURSIVE RulesOfSize(_, _), ForestsOfSize(_, _)
\* the rules of exactly n nodes whose label texts are drawn from texts
RulesOfSize(texts, n) ==
    {[text |-> t, kids |-> f] : t \in texts, f \in ForestsOfSize(texts, n - 1)}

\* the sequences of rules of m nodes in all
ForestsOfSize(texts, m) ==
    IF m = 0 THEN {<<>>}
    ELSE UNION {{<<r>> \o f : r \in RulesOfSize(texts, k), f \in ForestsOfSize(texts, m - k)} :
                k \in 1..m}

\* label texts of the rule strings the parser is run on: plain, wildcard,
\* with the exception mark at the end, and with a '!' that is not at the end
ParseTexts == {<<"a">>, <<"*">>, <<"a", "!">>, <<"!", "a">>, <<"!">>}

\* a rule with a count of two digits: a(10:a,a,a,a,a,a,a,a,a,a)
TenLeaves ==
    [text |-> <<"a">>, kids |-> [i \in 1..10 |-> [text |-> <<"a">>, kids |-> <<>>]]]

\* a single label, or a root (with or without a label of its own) over rules
ParseRules ==
    {TenLeaves} \cup RulesOfSize(ParseTexts, 1) \cup
    UNION {{[text |-> t, kids |-> f] : t \in {<<>>, <<"a">>, <<"a", "!">>},
                                        f \in ForestsOfSize(ParseTexts, m)} :
           m \in 1..MaxParseNodes}

(***************************************************************************)
(* The heap of the lookups.  A block is named by the call that allocated   *)
(* it and a number; a char pointer is a block and an offset into its       *)
(* bytes; a dlist pointer is the block of the struct.                      *)
(***************************************************************************)
Procs == {1, 2}

NullBlk == <<0, 0>>
NullPtr == [blk |-> NullBlk, off |-> 0]

\* a malloc'ed char array
StrBlock(bytes) == [bytes |-> bytes, val |-> NullPtr, next |-> NullBlk]
\* a malloc'ed struct dlist
DlistBlock(val, next) == [bytes |-> <<>>, val |-> val, next |-> next]

\* the block malloc returns to call p: one that is not allocated
FreshBlk(h, p) ==
    <<p, CHOOSE n \in 1..(Cardinality(DOMAIN h) + 1) :
            /\ <<p, n>> \notin DOMAIN h
            /\ \A m \in 1..(n - 1) : <<p, m>> \in DOMAIN h>>

\* the heap after malloc returned blk and the block was filled with b
Malloc(h, blk, b) == [i \in DOMAIN h \cup {blk} |-> IF i = blk THEN b ELSE h[i]]

\* free(blk); free(0) does nothing
Free(h, blk) == [i \in DOMAIN h \ {blk} |-> h[i]]

\* the bytes from offset off (0-based) up to the first NUL
RECURSIVE UpToNul(_, _)
UpToNul(bytes, off) ==
    IF off >= Len(bytes) \/ bytes[off + 1] = NUL THEN <<>>
    ELSE <<bytes[off + 1]>> \o UpToNul(bytes, off + 1)

\* the C string a char pointer points to (the pointers of the lookups always
\* point into allocated blocks; see PointersValid)
CStr(h, ptr) == IF ptr.blk \in DOMAIN h THEN UpToNul(h[ptr.blk].bytes, ptr.off) ELSE <<>>

\* strspn(s, "."): the delimiters skipped at the start of a token
RECURSIVE strspnNone(_, _), strspn(_, _)
strspnNone(bytes, off) == 0
strspn(bytes, off) ==
    IF CharAt(bytes, off) = "." THEN 1 + strspn(bytes, off + 1) ELSE 0

\* strcspn(s, "."): the length of the token
RECURSIVE strcspn(_, _)
strcspn(bytes, off) ==
    IF CharAt(bytes, off) \in {".", NUL} THEN 0 ELSE 1 + strcspn(bytes, off + 1)

\* strtok_r(str, ".", &saveptr): the token returned, the new *saveptr and the
\* heap after the delimiter that ends the token was overwritten with NUL
strtok_r(h, str, save) ==
    LET s0 == IF str # NullPtr THEN str ELSE save
        bytes == IF s0.blk \in DOMAIN h THEN h[s0.blk].bytes ELSE <<>>
        s == [s0 EXCEPT !.off = s0.off + strspn(bytes, s0.off)]
        end == [s EXCEPT !.off = s.off + strcspn(bytes, s.off)]
    IN  IF CharAt(bytes, s.off) = NUL
        THEN [heap |-> h, token |-> NullPtr, save |-> s]
        ELSE IF CharAt(bytes, end.off) = NUL
        THEN [heap |-> h, token |-> s, save |-> end]
        ELSE [heap |-> [h EXCEPT ![s.blk].bytes[end.off + 1] = NUL],
              token |-> s, save |-> [end EXCEPT !.off = end.off + 1]]

\* where a call keeps the saveptr it hands to strtok_r: in its own frame
\* (char *saveptr = 0; ... &saveptr)
SaveSlotShared(p) == 1
SaveSlot(p) == p

(***************************************************************************)
(* The matcher's pure parts.                                               *)
(***************************************************************************)
\* the node reached from root by a path of child indices
RECURSIVE NodeAt(_, _)
NodeAt(root, path) ==
    IF path = <<>> THEN root ELSE NodeAt(root.subnodes[Head(path)], Tail(path))

RECURSIVE findTldNodeFrom(_, _, _, _), findTldNodeFirst(_, _, _)
\* the loop of findTldNode from child i on (1-based; 0 is the null pointer)
findTldNodeFrom(parent, subdom, i, allNode) ==
    IF i > parent.num_children THEN allNode
    ELSE IF subdom = parent.subnodes[i].dom THEN i
    ELSE findTldNodeFrom(parent, subdom, i + 1,
             IF allNode = 0 /\ ALL = parent.subnodes[i].dom THEN i ELSE allNode)

findTldNodeFirst(parent, subdom, i) ==
    IF i > parent.num_children THEN 0
    ELSE IF parent.subnodes[i].dom \in {subdom, ALL} THEN i
    ELSE findTldNodeFirst(parent, subdom, i + 1)

findTldNodeEager(parent, subdom) == findTldNodeFirst(parent, subdom, 1)
\* findTldNode(parent, subdom): the index of the child returned, 0 for none
findTldNode(parent, subdom) == findTldNodeFrom(parent, subdom, 1, 0)

\* subNode->num_children == 1 && subNode->subnodes[0]->attr == THIS
OnlyChildIsExceptionNever(node) == FALSE
OnlyChildIsException(node) ==
    node.num_children = 1 /\ node.subnodes[1].attr = THIS

\* concatDomLabel(dl, du): dl "." du, or a copy of du when dl is null
concatDomLabelSwapped(dl, du) == IF dl = NullDom THEN du ELSE du \o <<".">> \o dl
concatDomLabel(dl, du) == IF dl = NullDom THEN du ELSE dl \o <<".">> \o du

\* lines 230-232: the copy of dom->val findRegisteredDomain returns
domainCopyShort(val) == SubSeq(val, 1, Len(val) - 1)
domainCopy(val) == val

\* strchr(result, '.') != 0
HasDotAlways(str) == TRUE
HasDot(str) == \E i \in 1..Len(str) : str[i] = "."

\* freeDomLabels(head, sDcopy): the heap after the list and the copy are freed
RECURSIVE freeDomLabels(_, _, _)
freeDomLabels(h, head, sDcopy) ==
    IF head # NullBlk /\ head \in DOMAIN h
    THEN freeDomLabels(Free(h, head), h[head].next, sDcopy)
    ELSE Free(h, sDcopy)

(***************************************************************************)
(* The inputs of the lookups.                                              *)
(***************************************************************************)
\* label texts of the rule trees the lookups run against: a plain label, the
\* wildcard and a label with the exception mark
LookupTexts == {<<"a">>, <<"*">>, <<"a", "!">>}

\* r(1:com): com as a leaf
\* r(1:ck(1:*(1:www!))): ck with wildcard child * and exception child www under it
\* r(1:ck(2:*,www(1:!))): the exception written as a bare mark under www
\* r(1:a(1:a(1:a))): three levels of plain labels
ExampleRules ==
    {[text |-> <<"r">>, kids |-> <<[text |-> <<"c", "o", "m">>, kids |-> <<>>]>>],
     [text |-> <<"r">>, kids |->
        <<[text |-> <<"c", "k">>, kids |->
            <<[text |-> <<"*">>, kids |->
                <<[text |-> <<"w", "w", "w", "!">>, kids |-> <<>>]>>]>>]>>],
     [text |-> <<"r">>, kids |->
        <<[text |-> <<"c", "k">>, kids |->
            <<[text |-> <<"*">>, kids |-> <<>>],
              [text |-> <<"w", "w", "w">>, kids |->
                <<[text |-> <<"!">>, kids |-> <<>>]>>]>>]>>],
     [text |-> <<"r">>, kids |->
        <<[text |-> <<"a">>, kids |->
            <<[text |-> <<"a">>, kids |->
                <<[text |-> <<"a">>, kids |-> <<>>]>>]>>]>>]}

LookupRules ==
    ExampleRules \cup
    UNION {{[text |-> <<"r">>, kids |-> f] : f \in ForestsOfSize(LookupTexts, m)} :
           m \in 0..MaxRuleNodes}

RECURSIVE StringsOfLen(_, _)
StringsOfLen(chars, n) ==
    IF n = 0 THEN {<<>>}
    ELSE {<<c>> \o t : c \in chars, t \in StringsOfLen(chars, n - 1)}

StringsUpTo(chars, n) == UNION {StringsOfLen(chars, k) : k \in 0..n}

ExampleHosts ==
    {<<"w", "w", "w", ".", "e", "x", "a", "m", "p", "l", "e", ".", "c", "o", "m">>,
     <<"e", "x", "a", "m", "p", "l", "e", ".", "c", "o", "m">>,
     <<"c", "o", "m">>,
     <<"w", "w", "w", ".", "c", "k">>,
     <<"f", "o", "o", ".", "c", "k">>,
     <<"a", ".", "f", "o", "o", ".", "c", "k">>,
     <<"a", ".", "z", "z", "z">>,
     <<"z", "z", "z">>,
     <<"b", ".", "a">>,
     <<"a", ".", "b">>,
     <<"b", ".", "a", ".", "a">>,
     <<"a", ".", "b", ".", "a">>,
     <<"b", ".", ".", "a", ".">>}

Hostnames == ExampleHosts \cup StringsUpTo({"a", "."}, MaxHostLen)

\* the trees and hostnames of the concurrent lookups
ConcRules == ExampleRules

ConcHostnames ==
    {<<"w", "w", "w", ".", "c", "k">>, <<"a", ".", "z", "z", "z">>,
     <<"a", ".", "a">>, <<"a", ".", ".", "a", "a", ".", "a">>}
    \cup StringsUpTo({"a", "."}, MaxConcHostLen)

(***************************************************************************)
(* State.                                                                  *)
(***************************************************************************)
VARIABLES
    rule,          \* the rule tree tldString was generated from
    tldString,     \* static const char tldString[] of tld-canon.h
    loaded,        \* whether loadTldTree has run
    tree,          \* the root node loadTldTree returned
    readPos,       \* the value the top-level readTldString returned
    readCalls,     \* start positions of the nested readTldString calls
    heap,          \* the allocated blocks of the lookups
    pc,            \* where each call of getRegisteredDomainDropI stands
    hostname,      \* its argument hostname
    drop_unknown,  \* its argument drop_unknown
    sDcopy,        \* its local sDcopy (a block)
    saveptr,       \* the saveptr strtok_r keeps for it
    token,         \* its local token
    head,          \* its local head (a dlist block)
    subtree,       \* findRegisteredDomain's subtree, as a path from the root
    dom,           \* findRegisteredDomain's dom
    subNode,       \* findRegisteredDomain's subNode, as a child index (0: null)
    stack,         \* dom of the findRegisteredDomain calls waiting for a return
    result,        \* the value the last findRegisteredDomain call returned
    retval         \* the value getRegisteredDomainDropI returned

parseVars == <<rule, tldString, loaded, tree, readPos, readCalls>>
callVars == <<pc, hostname, drop_unknown, sDcopy, saveptr, token, head,
              subtree, dom, subNode, stack, result, retval>>

vars == <<parseVars, heap, callVars>>

\* no call of getRegisteredDomainDropI has started
InitCalls ==
    /\ heap = << >>
    /\ pc = [p \in Procs |-> "idle"]
    /\ hostname = [p \in Procs |-> <<>>]
    /\ drop_unknown = [p \in Procs |-> FALSE]
    /\ sDcopy = [p \in Procs |-> NullBlk]
    /\ saveptr = [p \in Procs |-> NullPtr]
    /\ token = [p \in Procs |-> NullPtr]
    /\ head = [p \in Procs |-> NullBlk]
    /\ subtree = [p \in Procs |-> <<>>]
    /\ dom = [p \in Procs |-> NullBlk]
    /\ subNode = [p \in Procs |-> 0]
    /\ stack = [p \in Procs |-> <<>>]
    /\ result = [p \in Procs |-> NullPtr]
    /\ retval = [p \in Procs |-> NullPtr]

\* before loadTldTree: the rule string is fixed, no tree is built
InitParse ==
    /\ rule \in ParseRules
    /\ tldString = Encode(rule)
    /\ loaded = FALSE
    /\ tree = ZeroNode
    /\ readPos = 0
    /\ readCalls = <<>>
    /\ InitCalls

\* after loadTldTree built the tree from a rule string of rules
InitLoaded(rules) ==
    /\ rule \in rules
    /\ tldString = Encode(rule)
    /\ loaded = TRUE
    /\ LET r == readTldString(tldString, Len(tldString), 0)
       IN  /\ tree = r.node
           /\ readPos = r.pos
           /\ readCalls = r.calls
    /\ InitCalls

\* loadTldTree(): readTldString(root, tldString, sizeof tldString - 1, 0)
LoadTldTree ==
    /\ ~loaded
    /\ LET r == readTldString(tldString, Len(tldString), 0)
       IN  /\ tree' = r.node
           /\ readPos' = r.pos
           /\ readCalls' = r.calls
    /\ loaded' = TRUE
    /\ UNCHANGED <<rule, tldString, heap, callVars>>

(***************************************************************************)
(* getRegisteredDomainDropI, in steps.                                     *)
(***************************************************************************)
\* lines 268-275: the locals, the copy of hostname and the first strtok_r
Call(p, h, d) ==
    /\ loaded
    /\ pc[p] = "idle"
    /\ LET copy == FreshBlk(heap, p)
           h1 == Malloc(heap, copy, StrBlock(h \o <<NUL>>))
           t == strtok_r(h1, [blk |-> copy, off |-> 0], NullPtr)
       IN  /\ heap' = t.heap
           /\ sDcopy' = [sDcopy EXCEPT ![p] = copy]
           /\ token' = [token EXCEPT ![p] = t.token]
           /\ saveptr' = [saveptr EXCEPT ![SaveSlot(p)] = t.save]
    /\ hostname' = [hostname EXCEPT ![p] = h]
    /\ drop_unknown' = [drop_unknown EXCEPT ![p] = d]
    /\ head' = [head EXCEPT ![p] = NullBlk]
    /\ result' = [result EXCEPT ![p] = NullPtr]
    /\ pc' = [pc EXCEPT ![p] = "split"]
    /\ UNCHANGED <<parseVars, subtree, dom, subNode, stack, retval>>

\* lines 276-283: one turn of the while (token) loop
SplitStep(p) ==
    /\ pc[p] = "split"
    /\ token[p] # NullPtr
    /\ LET cur == FreshBlk(heap, p)
           h1 == Malloc(heap, cur, DlistBlock(token[p], head[p]))
           t == strtok_r(h1, NullPtr, saveptr[SaveSlot(p)])
       IN  /\ heap' = t.heap
           /\ head' = [head EXCEPT ![p] = cur]
           /\ token' = [token EXCEPT ![p] = t.token]
           /\ saveptr' = [saveptr EXCEPT ![SaveSlot(p)] = t.save]
    /\ UNCHANGED <<parseVars, pc, hostname, drop_unknown, sDcopy, subtree, dom,
                   subNode, stack, result, retval>>

\* lines 276, 285-286: the loop ends; findRegisteredDomain(tree, head) is
\* entered if there is a label
SplitDone(p) ==
    /\ pc[p] = "split"
    /\ token[p] = NullPtr
    /\ IF head[p] # NullBlk
       THEN /\ pc' = [pc EXCEPT ![p] = "find"]
            /\ subtree' = [subtree EXCEPT ![p] = <<>>]
            /\ dom' = [dom EXCEPT ![p] = head[p]]
            /\ stack' = [stack EXCEPT ![p] = <<>>]
       ELSE /\ pc' = [pc EXCEPT ![p] = "returned"]
            /\ UNCHANGED <<subtree, dom, stack>>
    /\ UNCHANGED <<parseVars, heap, hostname, drop_unknown, sDcopy, saveptr, token,
                   head, subNode, result, retval>>

\* lines 226-238: findRegisteredDomain up to its return or its recursive call
Find(p) ==
    /\ pc[p] = "find"
    /\ LET parent == NodeAt(tree, subtree[p])
           val == CStr(heap, heap[dom[p]].val)
           found == findTldNode(parent, val)
       IN  /\ subNode' = [subNode EXCEPT ![p] = found]
           /\ IF found = 0 \/ OnlyChildIsException(parent.subnodes[found])
              THEN LET domain == FreshBlk(heap, p)
                   IN  /\ heap' = Malloc(heap, domain, StrBlock(domainCopy(val) \o <<NUL>>))
                       /\ result' = [result EXCEPT ![p] = [blk |-> domain, off |-> 0]]
                       /\ pc' = [pc EXCEPT ![p] = "returned"]
                       /\ UNCHANGED <<subtree, dom, stack>>
              ELSE IF heap[dom[p]].next = NullBlk
              THEN /\ result' = [result EXCEPT ![p] = NullPtr]
                   /\ pc' = [pc EXCEPT ![p] = "returned"]
                   /\ UNCHANGED <<heap, subtree, dom, stack>>
              ELSE /\ stack' = [stack EXCEPT ![p] = Append(@, dom[p])]
                   /\ subtree' = [subtree EXCEPT ![p] = Append(@, found)]
                   /\ dom' = [dom EXCEPT ![p] = heap[dom[p]].next]
                   /\ UNCHANGED <<heap, result, pc>>
    /\ UNCHANGED <<parseVars, hostname, drop_unknown, sDcopy, saveptr, token, head,
                   retval>>

\* lines 238-244: a recursive call returned to the findRegisteredDomain above it
Unwind(p) ==
    /\ pc[p] = "returned"
    /\ stack[p] # <<>>
    /\ LET d == stack[p][Len(stack[p])]
           fRegDom == result[p]
       IN  IF fRegDom = NullPtr
           THEN UNCHANGED <<heap, result>>
           ELSE LET concDomain == FreshBlk(heap, p)
                    str == concatDomLabel(CStr(heap, fRegDom), CStr(heap, heap[d].val))
                    h1 == Malloc(heap, concDomain, StrBlock(str \o <<NUL>>))
                IN  /\ heap' = Free(h1, fRegDom.blk)
                    /\ result' = [result EXCEPT ![p] = [blk |-> concDomain, off |-> 0]]
    /\ stack' = [stack EXCEPT ![p] = SubSeq(@, 1, Len(@) - 1)]
    /\ UNCHANGED <<parseVars, pc, hostname, drop_unknown, sDcopy, saveptr, token,
                   head, subtree, dom, subNode, retval>>

\* lines 288-314: what getRegisteredDomainDropI does with result
Dispose(p) ==
    /\ pc[p] = "returned"
    /\ stack[p] = <<>>
    /\ IF result[p] = NullPtr
       THEN /\ heap' = freeDomLabels(heap, head[p], sDcopy[p])
            /\ retval' = [retval EXCEPT ![p] = NullPtr]
       ELSE IF ~HasDot(CStr(heap, result[p]))
       THEN LET h1 == Free(heap, result[p].blk)
            IN  IF heap[head[p]].next = NullBlk
                THEN /\ heap' = freeDomLabels(h1, head[p], sDcopy[p])
                     /\ retval' = [retval EXCEPT ![p] = NullPtr]
                ELSE IF drop_unknown[p]
                THEN /\ heap' = h1
                     /\ retval' = [retval EXCEPT ![p] = NullPtr]
                ELSE LET minDomain == FreshBlk(h1, p)
                         str == concatDomLabel(CStr(h1, h1[h1[head[p]].next].val),
                                               CStr(h1, h1[head[p]].val))
                         h2 == Malloc(h1, minDomain, StrBlock(str \o <<NUL>>))
                     IN  /\ heap' = freeDomLabels(h2, head[p], sDcopy[p])
                         /\ retval' = [retval EXCEPT ![p] = [blk |-> minDomain, off |-> 0]]
       ELSE /\ heap' = freeDomLabels(heap, head[p], sDcopy[p])
            /\ retval' = [retval EXCEPT ![p] = result[p]]
    /\ pc' = [pc EXCEPT ![p] = "done"]
    /\ UNCHANGED <<parseVars, hostname, drop_unknown, sDcopy, saveptr, token, head,
                   subtree, dom, subNode, stack, result>>

(***************************************************************************)
(* Specifications.                                                         *)
(***************************************************************************)
\* the parser alone
NextParse == LoadTldTree

SpecParse == InitParse /\ [][NextParse]_vars

\* one lookup against a built tree
Init == InitLoaded(LookupRules)

Next ==
    \/ \E h \in Hostnames, d \in BOOLEAN : Call(1, h, d)
    \/ SplitStep(1)
    \/ SplitDone(1)
    \/ Find(1)
    \/ Unwind(1)
    \/ Dispose(1)

Spec == Init /\ [][Next]_vars

\* lookups running concurrently against one built tree
InitConc == InitLoaded(ConcRules)

NextConc ==
    \E p \in Procs :
        \/ \E h \in ConcHostnames, d \in BOOLEAN : Call(p, h, d)
        \/ SplitStep(p)
        \/ SplitDone(p)
        \/ Find(p)
        \/ Unwind(p)
        \/ Dispose(p)

SpecConc == InitConc /\ [][NextConc]_vars

(***************************************************************************)
(* What the claims speak of, stated without the matcher's own operators.   *)
(***************************************************************************)
Reverse(seq) == [i \in 1..Len(seq) |-> seq[Len(seq) + 1 - i]]

NonEmptyField(f) == f # <<>>

RECURSIVE FieldsFrom(_, _, _)
FieldsFrom(h, i, cur) ==
    IF i > Len(h) THEN <<cur>>
    ELSE IF h[i] = "." THEN <<cur>> \o FieldsFrom(h, i + 1, <<>>)
    ELSE FieldsFrom(h, i + 1, Append(cur, h[i]))

\* the texts between the '.' separators of h, left to right, empty ones kept
Fields(h) == FieldsFrom(h, 1, <<>>)

\* the labels of h, left to right: its non-empty fields
HostLabels(h) == SelectSeq(Fields(h), NonEmptyField)

RECURSIVE JoinDots(_)
JoinDots(labels) ==
    IF Len(labels) = 1 THEN labels[1]
    ELSE labels[1] \o <<".">> \o JoinDots(Tail(labels))

\* the last m labels of h joined by '.', in their order in h
LastLabels(h, m) ==
    LET labels == HostLabels(h)
    IN  JoinDots(SubSeq(labels, Len(labels) - m + 1, Len(labels)))

\* the labels a dlist holds, from its head on
RECURSIVE ListVals(_, _)
ListVals(h, d) ==
    IF d = NullBlk THEN <<>> ELSE <<CStr(h, h[d].val)>> \o ListVals(h, h[d].next)

MinOf(S) == CHOOSE x \in S : \A y \in S : x <= y

\* the child a label selects: the first with that label, else the first "*"
\* child, else none (0)
Selected(parent, label) ==
    LET exact == {i \in 1..Len(parent.subnodes) : parent.subnodes[i].dom = label}
        wild == {i \in 1..Len(parent.subnodes) : parent.subnodes[i].dom = <<"*">>}
    IN  IF exact # {} THEN MinOf(exact)
        ELSE IF wild # {} THEN MinOf(wild) ELSE 0

\* a node whose only child is an exception
ExceptionBoundary(node) ==
    Len(node.subnodes) = 1 /\ node.subnodes[1].attr = THIS

\* the number of leading labels (top-level first) the walk matches before it
\* meets a label with no matching child or a matched exception boundary
RECURSIVE Matched(_, _, _)
Matched(node, labels, i) ==
    IF i > Len(labels) THEN 0
    ELSE LET c == Selected(node, labels[i])
         IN  IF c = 0 \/ ExceptionBoundary(node.subnodes[c]) THEN 0
             ELSE 1 + Matched(node.subnodes[c], labels, i + 1)

MatchedLabels(p) == Matched(tree, Reverse(HostLabels(hostname[p])), 1)
NumLabels(p) == Len(HostLabels(hostname[p]))

Absent == <<"ABSENT">>

\* what the call returned, as a string
Returned(p) == IF retval[p] = NullPtr THEN Absent ELSE CStr(heap, retval[p])

\* the blocks call p allocated that are still allocated
OwnBlocks(p) == {b \in DOMAIN heap : b[1] = p}

ComRule == [text |-> <<"r">>, kids |-> <<[text |-> <<"c", "o", "m">>, kids |-> <<>>]>>]
CkRule ==
    [text |-> <<"r">>, kids |->
        <<[text |-> <<"c", "k">>, kids |->
            <<[text |-> <<"*">>, kids |->
                <<[text |-> <<"w", "w", "w", "!">>, kids |-> <<>>]>>]>>]>>]

ExampleCom == <<"e", "x", "a", "m", "p", "l", "e", ".", "c", "o", "m">>
WwwCk == <<"w", "w", "w", ".", "c", "k">>
FooCk == <<"f", "o", "o", ".", "c", "k">>

(***************************************************************************)
(* Claims about one lookup (Spec).                                         *)
(***************************************************************************)
\* C1: with k the number of leading labels (top-level first) the walk matches,
\* getRegisteredDomain returns the last k+1 labels of the hostname joined by
\* '.' in their original order when k >= 1 and the hostname has more than k
\* labels, and absent when it has exactly k labels; with leaf com,
\* www.example.com and example.com give example.com and com gives absent.
SuffixPlusOneLabel ==
    (pc[1] = "done" /\ ~drop_unknown[1]) =>
        /\ (MatchedLabels(1) >= 1 /\ NumLabels(1) > MatchedLabels(1))
              => Returned(1) = LastLabels(hostname[1], MatchedLabels(1) + 1)
        /\ NumLabels(1) = MatchedLabels(1) => Returned(1) = Absent
        /\ (rule = ComRule /\ hostname[1] = <<"w", "w", "w", ".">> \o ExampleCom)
              => Returned(1) = ExampleCom
        /\ (rule = ComRule /\ hostname[1] = ExampleCom) => Returned(1) = ExampleCom
        /\ (rule = ComRule /\ hostname[1] = <<"c", "o", "m">>) => Returned(1) = Absent

\* a lookup of three labels of which two are matched has returned all three
SuffixPlusOneLabelReached ==
    /\ pc[1] = "done" /\ ~drop_unknown[1]
    /\ MatchedLabels(1) = 2 /\ NumLabels(1) = 3
    /\ Returned(1) = LastLabels(hostname[1], 3)

\* C2: when the top-level label has neither an exact nor a wildcard match
\* among the root's children, a hostname of two or more labels gives
\* second-label.top-level-label with drop_unknown false and absent with
\* drop_unknown true, and a hostname of one label gives absent in both modes.
UnknownTopLevelFallback ==
    (/\ pc[1] = "done"
     /\ NumLabels(1) >= 1
     /\ Selected(tree, HostLabels(hostname[1])[NumLabels(1)]) = 0) =>
        IF NumLabels(1) >= 2 /\ ~drop_unknown[1]
        THEN Returned(1) = HostLabels(hostname[1])[NumLabels(1) - 1] \o <<".">>
                              \o HostLabels(hostname[1])[NumLabels(1)]
        ELSE Returned(1) = Absent

\* a.zzz was looked up with drop_unknown false against a tree without zzz
UnknownTopLevelFallbackReached ==
    /\ pc[1] = "done" /\ ~drop_unknown[1]
    /\ hostname[1] = <<"a", ".", "z", "z", "z">>
    /\ Selected(tree, <<"z", "z", "z">>) = 0
    /\ Returned(1) = hostname[1]

\* C3: with ck, its wildcard child * and the exception www under *, www.ck
\* gives www.ck, foo.ck gives foo.ck and a.foo.ck gives foo.ck; and the walk
\* never descends into a node whose only child is an exception.
ExceptionShortCircuit ==
    /\ (pc[1] = "done" /\ ~drop_unknown[1] /\ rule = CkRule) =>
          /\ hostname[1] = WwwCk => Returned(1) = WwwCk
          /\ hostname[1] = FooCk => Returned(1) = FooCk
          /\ hostname[1] = <<"a", ".">> \o FooCk => Returned(1) = FooCk
    /\ \A j \in 1..Len(subtree[1]) :
          ~ExceptionBoundary(NodeAt(tree, SubSeq(subtree[1], 1, j)))

\* a.foo.ck was looked up against the ck tree and gave foo.ck
ExceptionShortCircuitReached ==
    /\ pc[1] = "done" /\ ~drop_unknown[1] /\ rule = CkRule
    /\ hostname[1] = <<"a", ".">> \o FooCk
    /\ Returned(1) = FooCk

\* the split loop of call p has ended and its label list is not yet freed
SplitOver(p) ==
    \/ pc[p] \in {"find", "returned"}
    \/ pc[p] = "split" /\ token[p] = NullPtr

\* C5 as amended: the split drops empty labels: the label list holds the
\* non-empty texts between the '.' separators, top-level label first, and
\* consecutive, leading and trailing separators add no label.
SplitDropsEmptyLabels ==
    SplitOver(1) => ListVals(heap, head[1]) = Reverse(HostLabels(hostname[1]))

\* C5 as stated: the split keeps empty labels: n separators give n+1 labels,
\* an empty string for each empty position, top-level label first.
SplitKeepsEmptyLabels ==
    (SplitOver(1) /\ \E i \in 1..Len(hostname[1]) : hostname[1][i] = ".") =>
        ListVals(heap, head[1]) = Reverse(Fields(hostname[1]))

\* b..a. was split: consecutive and trailing separators, two labels
SplitDropsEmptyLabelsReached ==
    /\ pc[1] = "find"
    /\ hostname[1] = <<"b", ".", ".", "a", ".">>
    /\ ListVals(heap, head[1]) = <<<<"a">>, <<"b">>>>

\* C6: when a lookup has returned, the only storage of the call still
\* allocated is the returned string, if any.
TransientStorageReleased ==
    pc[1] = "done" =>
        OwnBlocks(1) = IF retval[1] = NullPtr THEN {} ELSE {retval[1].blk}

\* call p is right after a findTldNode call: the parent searched and the label
FindParent(p) ==
    IF pc[p] = "find" THEN NodeAt(tree, SubSeq(subtree[p], 1, Len(subtree[p]) - 1))
    ELSE NodeAt(tree, subtree[p])
FindLabel(p) ==
    IF pc[p] = "find" THEN CStr(heap, heap[stack[p][Len(stack[p])]].val)
    ELSE CStr(heap, heap[dom[p]].val)
AfterFind(p) ==
    \/ pc[p] = "find" /\ subtree[p] # <<>>
    \/ pc[p] = "returned" /\ head[p] # NullBlk /\ Len(stack[p]) = Len(subtree[p])

HasChild(parent, label) == \E i \in 1..Len(parent.subnodes) : parent.subnodes[i].dom = label

\* C9: findTldNode returns a child with the given label whenever there is one,
\* wherever it sits relative to a "*" child; the "*" child only when no child
\* has the label; and none when there is neither.
ExactBeatsWildcard ==
    AfterFind(1) =>
        LET parent == FindParent(1)
            label == FindLabel(1)
        IN  IF HasChild(parent, label)
            THEN subNode[1] # 0 /\ parent.subnodes[subNode[1]].dom = label
            ELSE IF HasChild(parent, <<"*">>)
            THEN subNode[1] # 0 /\ parent.subnodes[subNode[1]].dom = <<"*">>
            ELSE subNode[1] = 0

\* a label was found whose exact child comes after a "*" sibling
ExactBeatsWildcardReached ==
    /\ AfterFind(1)
    /\ subNode[1] > 1
    /\ FindParent(1).subnodes[1].dom = <<"*">>
    /\ FindLabel(1) # <<"*">>
    /\ FindParent(1).subnodes[subNode[1]].dom = FindLabel(1)

\* C10: a lookup that returns a domain, in either mode, returns two or more of
\* the hostname's last labels joined by '.', in their original order.
ReturnsTailOfTwoOrMore ==
    (pc[1] = "done" /\ retval[1] # NullPtr) =>
        \E m \in 2..NumLabels(1) : Returned(1) = LastLabels(hostname[1], m)

\* a strict lookup of a hostname of three labels returned its last two
ReturnsTailOfTwoOrMoreReached ==
    /\ pc[1] = "done" /\ drop_unknown[1] /\ retval[1] # NullPtr
    /\ NumLabels(1) = 3
    /\ Returned(1) = LastLabels(hostname[1], 2)

(***************************************************************************)
(* Claims about the parser (SpecParse).                                    *)
(***************************************************************************)
EndsWithMark(text) == text # <<>> /\ text[Len(text)] = "!"

\* the label a rule text stands for: the text without a final '!'
WrittenLabel(text) ==
    IF EndsWithMark(text) THEN SubSeq(text, 1, Len(text) - 1) ELSE text

WrittenAttr(text) == IF EndsWithMark(text) THEN THIS ELSE NoAttr

\* node and its descendants carry the labels and flags rule r writes
RECURSIVE StoredAsWritten(_, _)
StoredAsWritten(r, node) ==
    /\ node.dom = WrittenLabel(r.text)
    /\ node.attr = WrittenAttr(r.text)
    /\ Len(node.subnodes) = Len(r.kids)
    /\ \A i \in 1..Len(r.kids) : StoredAsWritten(r.kids[i], node.subnodes[i])

\* C7: a node's exception flag is set exactly when its label text ends with
\* '!' right before the delimiter that ends it, the stored label is then the
\* text without that '!', and otherwise the flag is clear and the stored label
\* is the whole text.
FlagOnlyForFinalMark ==
    loaded =>
        /\ Len(tree.subnodes) = Len(rule.kids)
        /\ \A i \in 1..Len(rule.kids) : StoredAsWritten(rule.kids[i], tree.subnodes[i])

\* the child counts of node and its descendants are those of rule r
RECURSIVE SameShape(_, _)
SameShape(r, node) ==
    /\ node.num_children = Len(r.kids)
    /\ Len(node.subnodes) = Len(r.kids)
    /\ \A i \in 1..Len(r.kids) : SameShape(r.kids[i], node.subnodes[i])

\* the positions in Encode(r) of the first character of each descendant's
\* label, in the order they are written, when r itself starts at position at
RECURSIVE LabelStarts(_, _), KidStarts(_, _)
LabelStarts(r, at) ==
    IF r.kids = <<>> THEN <<>>
    ELSE KidStarts(r.kids, at + Len(r.text) + 1 + Len(Dec(Len(r.kids))) + 1)

KidStarts(kids, at) ==
    IF kids = <<>> THEN <<>>
    ELSE <<at>> \o LabelStarts(kids[1], at)
                \o KidStarts(Tail(kids), at + Len(Encode(kids[1])) + 1)

\* no '!' in the text other than a final one
MarkOnlyFinal(text) == \A i \in 1..(Len(text) - 1) : text[i] # "!"

\* each child of node is the node its sibling text gives when read on its own
\* up to a delimiter, and carries the written label and flag when its text has
\* no '!' but a final one
RECURSIVE KidsAsSiblings(_, _)
KidsAsSiblings(r, node) ==
    \A i \in 1..Len(r.kids) :
        LET text == Encode(r.kids[i]) \o <<",">>
            kid == node.subnodes[i]
        IN  /\ kid = readTldString(text, Len(text), 0).node
            /\ MarkOnlyFinal(r.kids[i].text) =>
                  /\ kid.dom = WrittenLabel(r.kids[i].text)
                  /\ kid.attr = WrittenAttr(r.kids[i].text)
            /\ KidsAsSiblings(r.kids[i], kid)

\* the tree written back in the grammar; a node without a label writes none
RECURSIVE Serialize(_), SerializeList(_)
Serialize(node) ==
    (IF node.dom = NullDom THEN <<>> ELSE node.dom)
    \o (IF node.attr = THIS THEN <<"!">> ELSE <<>>)
    \o (IF node.num_children = 0 THEN <<>>
        ELSE <<"(">> \o Dec(node.num_children) \o <<":">>
             \o SerializeList(node.subnodes) \o <<")">>)

SerializeList(nodes) ==
    IF Len(nodes) = 1 THEN Serialize(nodes[1])
    ELSE Serialize(nodes[1]) \o <<",">> \o SerializeList(Tail(nodes))

\* C8: on a well-formed rule string one readTldString call reads one node: the
\* top-level call consumes the whole string, a label followed by '(' n ':' gets
\* the n sibling nodes as its children in order and a label without '(' gets
\* none, each sibling is read from the first character of its own label, and
\* the tree written back in the grammar and read again is the same tree.
ReadsOneNodePerCall ==
    loaded =>
        /\ readPos = Len(tldString)
        /\ SameShape(rule, tree)
        /\ readCalls = LabelStarts(rule, 0)
        /\ KidsAsSiblings(rule, tree)
        /\ readTldString(Serialize(tree), Len(Serialize(tree)), 0).node = tree

\* a string was read in which a nested block is followed by a sibling
ReadsOneNodePerCallReached ==
    /\ loaded
    /\ Len(rule.kids) = 2
    /\ rule.kids[1].kids # <<>>
    /\ tree.num_children = 2
    /\ tree.subnodes[1].num_children = 1
    /\ tree.subnodes[2].num_children = 0

(***************************************************************************)
(* Claims about concurrent lookups (SpecConc).                             *)
(***************************************************************************)
\* what a lookup of h against tree t returns: absent when every label is
\* matched or there is none, the matched labels and one more when a label is
\* matched, and for an unmatched top-level label the last two labels unless
\* there is one label only or unknown names are dropped
Expected(t, h, d) ==
    LET n == Len(HostLabels(h))
        k == Matched(t, Reverse(HostLabels(h)), 1)
    IN  IF n = 0 \/ k = n THEN Absent
        ELSE IF k >= 1 THEN LastLabels(h, k + 1)
        ELSE IF n >= 2 /\ ~d THEN LastLabels(h, 2)
        ELSE Absent

\* a lookup run alone returns Expected (an invariant of Spec)
AloneReturnsExpected ==
    pc[1] = "done" => Returned(1) = Expected(tree, hostname[1], drop_unknown[1])

\* block b is null or was allocated by call p
Own(b, p) == b = NullBlk \/ b[1] = p

\* every pointer call p holds, and every pointer in its label list, points
\* into storage of call p
OwnPointers(p) ==
    /\ Own(sDcopy[p], p) /\ Own(head[p], p) /\ Own(dom[p], p)
    /\ Own(token[p].blk, p) /\ Own(saveptr[p].blk, p)
    /\ Own(result[p].blk, p) /\ Own(retval[p].blk, p)
    /\ \A i \in 1..Len(stack[p]) : Own(stack[p][i], p)
    /\ \A b \in OwnBlocks(p) : Own(heap[b].val.blk, p) /\ Own(heap[b].next, p)

\* the label list of call p holds the labels of its own hostname: all of them
\* once the split is over, and before that the ones already split off
OwnLabelList(p) ==
    /\ SplitOver(p) => ListVals(heap, head[p]) = Reverse(HostLabels(hostname[p]))
    /\ (pc[p] = "split" /\ token[p] # NullPtr) =>
          LET done == ListVals(heap, head[p])
              labels == HostLabels(hostname[p])
          IN  /\ Len(done) < Len(labels)
              /\ done = Reverse(SubSeq(labels, 1, Len(done)))
              /\ CStr(heap, token[p]) = labels[Len(done) + 1]

\* C4: for lookups running concurrently against one tree, under every
\* interleaving: no step changes the tree, no lookup reads or writes another
\* lookup's label list or result, and each lookup returns what it returns when
\* run alone.
LookupsDoNotInterfere ==
    /\ [][tree' = tree]_vars
    /\ [](\A p \in Procs :
            /\ OwnPointers(p)
            /\ OwnLabelList(p)
            /\ pc[p] = "done" =>
                  Returned(p) = Expected(tree, hostname[p], drop_unknown[p]))

\* lookup 1 returned a domain while lookup 2, of another hostname, was in
\* the middle of its walk with its own label list and partial result
LookupsDoNotInterfereReached ==
    /\ pc[1] = "done" /\ retval[1] # NullPtr
    /\ pc[2] = "returned" /\ stack[2] # <<>> /\ result[2] # NullPtr
    /\ hostname[1] # hostname[2]
    /\ OwnBlocks(1) # {} /\ OwnBlocks(2) # {}

====
